---- MODULE Spec2Model ----
(***************************************************************************)
(* Model of the eShopCo latency monitor (src/main.py): the static          *)
(* telemetry table, calculate_metrics and the POST /analyze handler.       *)
(*                                                                         *)
(* Numbers with decimals are kept as scaled integers:                      *)
(*   avg_latency, p95_latency  in hundredths of a millisecond (2 places)   *)
(*   avg_uptime                in thousandths                  (3 places)  *)
(* A value before rounding is an exact fraction [num, den].                *)
(***************************************************************************)
EXTENDS FiniteSets, Integers, Sequences, TLC

VARIABLES
    records,         \* calculate_metrics: the data argument
    calls,           \* calculate_metrics: the last two calls made on records
    pc,              \* analyze_latency: position of each in-flight request
    request,         \* analyze_latency: the parsed TelemetryRequest
    telemetry_data,  \* analyze_latency: local telemetry_data
    results,         \* analyze_latency: local results
    idx,             \* analyze_latency: regions already iterated by the for loop
    response         \* what the caller of POST /analyze receives

calcVars == <<records, calls>>
reqVars == <<pc, request, telemetry_data, results, idx, response>>
vars == <<records, calls, pc, request, telemetry_data, results, idx, response>>

-----------------------------------------------------------------------------
(* Bounds and input sets *)

MaxRecords == 3
MaxRegions == 2

LatencyValues == {100, 150, 200, 300}
UptimeValues == {0, 1}
CalcThresholds == {-50, 100, 150, 200, 300}

Workers == {"w1", "w2"}
RequestRegionNames == {"apac", "amer", "emea", "latam"}
RequestThresholds == {150, 175}

-----------------------------------------------------------------------------
(* Python dict and list helpers *)

EmptyDict == [k \in {} |-> 0]

DictGet(d, k, default) == IF k \in DOMAIN d THEN d[k] ELSE default

DictSetOnlyLast(d, k, v) == [x \in {k} |-> v]

DictSet(d, k, v) == [x \in (DOMAIN d) \cup {k} |-> IF x = k THEN v ELSE d[x]]

ToSet(s) == {s[i] : i \in DOMAIN s}

RECURSIVE SumSeq(_)
SumSeq(s) == IF s = <<>> THEN 0 ELSE Head(s) + SumSeq(Tail(s))

RECURSIVE Insert(_, _)
Insert(x, s) ==
    IF s = <<>> THEN <<x>>
    ELSE IF x <= Head(s) THEN <<x>> \o s
    ELSE <<Head(s)>> \o Insert(x, Tail(s))

RECURSIVE Sorted(_)
Sorted(s) == IF s = <<>> THEN <<>> ELSE Insert(Head(s), Sorted(Tail(s)))

-----------------------------------------------------------------------------
(* numpy and round *)

Pow10(n) == IF n = 0 THEN 1 ELSE IF n = 1 THEN 10 ELSE IF n = 2 THEN 100 ELSE 1000

\* np.mean: the exact quotient sum / n
np_mean(vals) == [num |-> SumSeq(vals), den |-> Len(vals)]

np_percentile_lower(vals, q) ==
    LET s == Sorted(vals)
        n == Len(vals)
        lo == (q * (n - 1)) \div 100
    IN  [num |-> s[lo + 1], den |-> 1]

\* np.percentile, method "linear": sort, virtual index q/100 * (n-1),
\* interpolate between the two neighbouring order statistics
np_percentile(vals, q) ==
    LET s == Sorted(vals)
        n == Len(vals)
        lo == (q * (n - 1)) \div 100
        gamma == (q * (n - 1)) % 100
        hi == IF lo + 1 > n - 1 THEN n - 1 ELSE lo + 1
        a == s[lo + 1]
        b == s[hi + 1]
    IN  [num |-> 100 * a + gamma * (b - a), den |-> 100]

\* round(x, ndigits) on a numpy float: nearest multiple of 10^-ndigits, ties
\* to even; the result is in units of 10^-ndigits
round(x, ndigits) ==
    LET num == x.num * Pow10(ndigits)
        q == num \div x.den
        r == num % x.den
    IN  IF 2 * r < x.den THEN q
        ELSE IF 2 * r > x.den THEN q + 1
        ELSE IF q % 2 = 0 THEN q ELSE q + 1

-----------------------------------------------------------------------------
(* Data provider *)

Rec(l, u, m) == [latency_ms |-> l, uptime |-> u, timestamp |-> m]

MkRecords(ls, us) == [i \in 1..Len(ls) |-> Rec(ls[i], us[i], i - 1)]

load_sample_data ==
    [region \in {"apac", "amer", "emea"} |->
        IF region = "apac" THEN
            MkRecords(<<120, 145, 200, 110, 180, 165, 190, 130, 175, 155>>,
                      <<1, 1, 1, 0, 1, 1, 1, 1, 1, 1>>)
        ELSE IF region = "amer" THEN
            MkRecords(<<95, 105, 170, 185, 90, 150, 160, 140, 125, 135>>,
                      <<1, 1, 1, 1, 0, 1, 1, 1, 1, 1>>)
        ELSE
            MkRecords(<<85, 115, 175, 195, 100, 125, 155, 135, 165, 145>>,
                      <<1, 1, 1, 1, 1, 1, 0, 1, 1, 1>>)]

-----------------------------------------------------------------------------
(* Metrics calculator *)

RegionMetrics(al, p95, au, br) ==
    [avg_latency |-> al, p95_latency |-> p95, avg_uptime |-> au, breaches |-> br]

RECURSIVE CountBelow(_, _)
CountBelow(lats, threshold) ==
    IF lats = <<>> THEN 0
    ELSE (IF Head(lats) < threshold THEN 1 ELSE 0) + CountBelow(Tail(lats), threshold)

RECURSIVE CountAtLeast(_, _)
CountAtLeast(lats, threshold) ==
    IF lats = <<>> THEN 0
    ELSE (IF Head(lats) >= threshold THEN 1 ELSE 0) + CountAtLeast(Tail(lats), threshold)

\* sum(1 for lat in latencies if lat > threshold_ms)
RECURSIVE CountBreaches(_, _)
CountBreaches(lats, threshold) ==
    IF lats = <<>> THEN 0
    ELSE (IF Head(lats) > threshold THEN 1 ELSE 0) + CountBreaches(Tail(lats), threshold)

NoDataMetricsUp == RegionMetrics(0, 0, 1000, 0)

NoDataMetrics == RegionMetrics(0, 0, 0, 0)

calculate_metrics(data, threshold) ==
    IF data = <<>> THEN NoDataMetrics
    ELSE
        LET latencies == [i \in 1..Len(data) |-> data[i].latency_ms]
            uptimes == [i \in 1..Len(data) |-> data[i].uptime]
        IN  RegionMetrics(round(np_mean(latencies), 2),
                          round(np_percentile(latencies, 95), 2),
                          round(np_mean(uptimes), 3),
                          CountBreaches(latencies, threshold))

-----------------------------------------------------------------------------
(* Specification of calculate_metrics on arbitrary record sequences *)

IdleRequest == [regions |-> <<>>, threshold_ms |-> 0]

NoDetail == [text |-> "", cause |-> 0, invalid |-> {}, available |-> {}]

NoResponse == [status |-> 0, body |-> EmptyDict, detail |-> NoDetail]

ReqIdle ==
    /\ pc = [w \in Workers |-> "idle"]
    /\ request = [w \in Workers |-> IdleRequest]
    /\ telemetry_data = [w \in Workers |-> EmptyDict]
    /\ results = [w \in Workers |-> EmptyDict]
    /\ idx = [w \in Workers |-> 0]
    /\ response = [w \in Workers |-> NoResponse]

CalcInit ==
    /\ \E n \in 0..MaxRecords :
         \E ls \in [1..n -> LatencyValues], us \in [1..n -> UptimeValues] :
            records = MkRecords(ls, us)
    /\ calls = <<>>
    /\ ReqIdle

Calculate(t) ==
    LET call == [threshold_ms |-> t, out |-> calculate_metrics(records, t)]
    IN  /\ calls' = IF Len(calls) = 2 THEN <<calls[2], call>> ELSE Append(calls, call)
        /\ UNCHANGED <<records, reqVars>>

CalcNext == \E t \in CalcThresholds : Calculate(t)

SpecCalc == CalcInit /\ [][CalcNext]_vars

-----------------------------------------------------------------------------
(* Request handler: POST /analyze *)

HTTPException(status_code, detail) == [status_code |-> status_code, detail |-> detail]

\* str(e) of an HTTPException: "<status_code>: <detail>"
Str(e) ==
    [text |-> e.detail.text, cause |-> e.status_code,
     invalid |-> e.detail.invalid, available |-> e.detail.available]

InvalidRegionsDetail(invalid, available) ==
    [text |-> "Invalid regions", cause |-> 0,
     invalid |-> invalid, available |-> available]

ErrorResponse(e) == [status |-> e.status_code, body |-> EmptyDict, detail |-> e.detail]

\* except Exception as e: raise HTTPException(500, "Error processing request: " + str(e))
\* HTTPException is itself an Exception, so the 400 raised in the try block
\* lands here too
ExceptHandler(e) ==
    ErrorResponse(HTTPException(500,
        [text |-> "Error processing request", cause |-> Str(e).cause,
         invalid |-> Str(e).invalid, available |-> Str(e).available]))

InvalidRegions(regions, telemetry) == ToSet(regions) \ DOMAIN telemetry

RECURSIVE ComputeAll(_, _, _, _)
ComputeAll(regions, threshold, telemetry, acc) ==
    IF regions = <<>> THEN acc
    ELSE ComputeAll(Tail(regions), threshold, telemetry,
                    DictSet(acc, Head(regions),
                            calculate_metrics(DictGet(telemetry, Head(regions), <<>>),
                                              threshold)))

\* The handler run from start to end with nothing else going on
analyze_latency(req) ==
    LET telemetry == load_sample_data
        invalid == InvalidRegions(req.regions, telemetry)
    IN  IF invalid # {}
        THEN ExceptHandler(HTTPException(400,
                 InvalidRegionsDetail(invalid, DOMAIN telemetry)))
        ELSE [status |-> 200,
              body |-> ComputeAll(req.regions, req.threshold_ms, telemetry, EmptyDict),
              detail |-> NoDetail]

RegionLists == UNION {[1..n -> RequestRegionNames] : n \in 0..MaxRegions}

Init ==
    /\ records = <<>>
    /\ calls = <<>>
    /\ ReqIdle

\* FastAPI parses the body into a TelemetryRequest and calls the handler
Receive(w) ==
    /\ pc[w] = "idle"
    /\ \E regions \in RegionLists, t \in RequestThresholds :
          request' = [request EXCEPT ![w] = [regions |-> regions, threshold_ms |-> t]]
    /\ pc' = [pc EXCEPT ![w] = "load"]
    /\ UNCHANGED <<telemetry_data, results, idx, response, calcVars>>

\* telemetry_data = load_sample_data()
Load(w) ==
    /\ pc[w] = "load"
    /\ telemetry_data' = [telemetry_data EXCEPT ![w] = load_sample_data]
    /\ pc' = [pc EXCEPT ![w] = "validate"]
    /\ UNCHANGED <<request, results, idx, response, calcVars>>

ValidateSkip(w) ==
    /\ pc[w] = "validate"
    /\ results' = [results EXCEPT ![w] = EmptyDict]
    /\ idx' = [idx EXCEPT ![w] = 0]
    /\ pc' = [pc EXCEPT ![w] = "loop"]
    /\ UNCHANGED <<request, telemetry_data, response, calcVars>>

\* the region check; on failure the 400 is raised inside the try block and
\* replaced by the except clause; on success results = {}
Validate(w) ==
    /\ pc[w] = "validate"
    /\ LET available_regions == DOMAIN telemetry_data[w]
           invalid_regions == InvalidRegions(request[w].regions, telemetry_data[w])
       IN  IF invalid_regions # {}
           THEN /\ response' = [response EXCEPT ![w] =
                       ExceptHandler(HTTPException(400,
                           InvalidRegionsDetail(invalid_regions, available_regions)))]
                /\ pc' = [pc EXCEPT ![w] = "done"]
                /\ UNCHANGED <<results, idx>>
           ELSE /\ results' = [results EXCEPT ![w] = EmptyDict]
                /\ idx' = [idx EXCEPT ![w] = 0]
                /\ pc' = [pc EXCEPT ![w] = "loop"]
                /\ UNCHANGED response
    /\ UNCHANGED <<request, telemetry_data, calcVars>>

ComputeRegionPop(w) ==
    /\ pc[w] = "loop"
    /\ idx[w] < Len(request[w].regions)
    /\ LET region == request[w].regions[idx[w] + 1]
           region_data == DictGet(telemetry_data[w], region, <<>>)
           metrics == calculate_metrics(region_data, request[w].threshold_ms)
       IN  /\ results' = [results EXCEPT ![w] = DictSet(@, region, metrics)]
           /\ telemetry_data' = [telemetry_data EXCEPT ![w] =
                  [k \in (DOMAIN @) \ {region} |-> @[k]]]
    /\ idx' = [idx EXCEPT ![w] = @ + 1]
    /\ UNCHANGED <<pc, request, response, calcVars>>

ComputeRegionShared(w) ==
    /\ pc[w] = "loop"
    /\ idx[w] < Len(request[w].regions)
    /\ LET region == request[w].regions[idx[w] + 1]
           region_data == DictGet(telemetry_data[w], region, <<>>)
           metrics == calculate_metrics(region_data, request[w].threshold_ms)
       IN  results' = [v \in Workers |-> DictSet(results[v], region, metrics)]
    /\ idx' = [idx EXCEPT ![w] = @ + 1]
    /\ UNCHANGED <<pc, request, telemetry_data, response, calcVars>>

\* one iteration of: for region in request.regions
ComputeRegion(w) ==
    /\ pc[w] = "loop"
    /\ idx[w] < Len(request[w].regions)
    /\ LET region == request[w].regions[idx[w] + 1]
           region_data == DictGet(telemetry_data[w], region, <<>>)
           metrics == calculate_metrics(region_data, request[w].threshold_ms)
       IN  results' = [results EXCEPT ![w] = DictSet(@, region, metrics)]
    /\ idx' = [idx EXCEPT ![w] = @ + 1]
    /\ UNCHANGED <<pc, request, telemetry_data, response, calcVars>>

\* return results
Return(w) ==
    /\ pc[w] = "loop"
    /\ idx[w] = Len(request[w].regions)
    /\ response' = [response EXCEPT ![w] =
           [status |-> 200, body |-> results[w], detail |-> NoDetail]]
    /\ pc' = [pc EXCEPT ![w] = "done"]
    /\ UNCHANGED <<request, telemetry_data, results, idx, calcVars>>

\* the response is sent; the invocation's locals are gone and the worker
\* takes the next request
Deliver(w) ==
    /\ pc[w] = "done"
    /\ pc' = [pc EXCEPT ![w] = "idle"]
    /\ request' = [request EXCEPT ![w] = IdleRequest]
    /\ telemetry_data' = [telemetry_data EXCEPT ![w] = EmptyDict]
    /\ results' = [results EXCEPT ![w] = EmptyDict]
    /\ idx' = [idx EXCEPT ![w] = 0]
    /\ response' = [response EXCEPT ![w] = NoResponse]
    /\ UNCHANGED calcVars

Next ==
    \E w \in Workers :
        \/ Receive(w)
        \/ Load(w)
        \/ Validate(w)
        \/ ComputeRegion(w)
        \/ Return(w)
        \/ Deliver(w)

Spec == Init /\ [][Next]_vars

-----------------------------------------------------------------------------
(* Properties of calculate_metrics *)

LastCall == calls[Len(calls)]

Latencies == [i \in 1..Len(records) |-> records[i].latency_ms]

\* The k-th smallest value (k counted from 0) of a non-empty sequence, by rank:
\* fewer than k+1 values are below it and more than k values are not above it
KthSmallest(vals, k) ==
    CHOOSE v \in ToSet(vals) :
        /\ Cardinality({i \in DOMAIN vals : vals[i] < v}) <= k
        /\ k < Cardinality({i \in DOMAIN vals : vals[i] <= v})

\* Twenty times the value interpolated at position 0.95 * (n - 1)
InterpolatedP95x20(vals) ==
    LET n == Len(vals)
        lo == (19 * (n - 1)) \div 20
        part == (19 * (n - 1)) % 20
        a == KthSmallest(vals, lo)
        b == KthSmallest(vals, IF lo + 1 > n - 1 THEN n - 1 ELSE lo + 1)
    IN  20 * a + part * (b - a)

Abs(x) == IF x < 0 THEN -x ELSE x

\* C4: breaches is the number of records whose latency_ms is strictly greater
\* than threshold_ms; a record with latency_ms equal to threshold_ms is not
\* counted.
C4_BreachesStrict ==
    \A c \in DOMAIN calls :
        calls[c].out.breaches =
            Cardinality({i \in DOMAIN records :
                            records[i].latency_ms > calls[c].threshold_ms})

C4_Witness ==
    /\ calls # <<>>
    /\ \E i \in DOMAIN records : records[i].latency_ms = LastCall.threshold_ms
    /\ \E i \in DOMAIN records : records[i].latency_ms > LastCall.threshold_ms
    /\ LastCall.out.breaches = 1

\* C5: for n >= 1 integer latencies p95_latency is the value interpolated
\* linearly between the two closest ranks of the ascending order at position
\* 0.95 * (n - 1), rounded to 2 decimal places (the hundredth nearest to it);
\* for n = 1 it is the single latency.
C5_P95Interpolated ==
    \A c \in DOMAIN calls :
        records # <<>> =>
            /\ 2 * Abs(20 * calls[c].out.p95_latency
                        - 100 * InterpolatedP95x20(Latencies)) <= 20
            /\ Len(records) = 1 =>
                  calls[c].out.p95_latency = 100 * records[1].latency_ms

C5_Witness ==
    /\ calls # <<>>
    /\ Len(records) = 3
    /\ records[1].latency_ms = 300
    /\ records[2].latency_ms = 100
    /\ records[3].latency_ms = 200
    /\ LastCall.out.p95_latency = 29000

\* C7: for a fixed record sequence and thresholds t1 <= t2, breaches for t1 is
\* at least breaches for t2, and breaches lies between 0 and the number of
\* records.
C7_BreachesMonotone ==
    /\ \A c \in DOMAIN calls :
          /\ calls[c].out.breaches >= 0
          /\ calls[c].out.breaches <= Len(records)
    /\ \A c, d \in DOMAIN calls :
          calls[c].threshold_ms <= calls[d].threshold_ms =>
              calls[c].out.breaches >= calls[d].out.breaches

C7_Witness ==
    /\ Len(calls) = 2
    /\ calls[1].threshold_ms < calls[2].threshold_ms
    /\ calls[1].out.breaches > calls[2].out.breaches
    /\ calls[2].out.breaches > 0

\* C8: for an empty record sequence calculate_metrics returns avg_latency 0,
\* p95_latency 0, avg_uptime 0 and breaches 0 for every threshold_ms, negative
\* ones included.
C8_EmptyIsZero ==
    \A c \in DOMAIN calls :
        records = <<>> =>
            /\ calls[c].out.avg_latency = 0
            /\ calls[c].out.p95_latency = 0
            /\ calls[c].out.avg_uptime = 0
            /\ calls[c].out.breaches = 0

C8_Witness ==
    /\ records = <<>>
    /\ Len(calls) = 2
    /\ calls[1].threshold_ms < 0
    /\ calls[2].threshold_ms > 0

-----------------------------------------------------------------------------
(* Properties of POST /analyze *)

Done(w) == pc[w] = "done"

Requested(w) == ToSet(request[w].regions)

AllValid(w) == InvalidRegions(request[w].regions, load_sample_data) = {}

HasDuplicates(s) == Cardinality(ToSet(s)) < Len(s)

\* The list without the repeated occurrences of a name
RECURSIVE Dedup(_)
Dedup(s) ==
    IF s = <<>> THEN <<>>
    ELSE LET front == Dedup(SubSeq(s, 1, Len(s) - 1))
         IN  IF s[Len(s)] \in ToSet(front) THEN front ELSE Append(front, s[Len(s)])

\* C1: a request naming at least one region that is not a key of the dataset
\* is answered with status 400 and a message naming the invalid and the
\* available regions, never with 200 or a 5xx status.
C1_InvalidRegionIs400 ==
    \A w \in Workers :
        (Done(w) /\ ~AllValid(w)) =>
            /\ response[w].status = 400
            /\ response[w].detail.invalid =
                   InvalidRegions(request[w].regions, load_sample_data)
            /\ response[w].detail.available = DOMAIN load_sample_data

\* C2: a request whose regions are all keys of the dataset (the empty list
\* included) succeeds and the key set of the returned mapping is exactly the
\* set of requested names.
C2_KeysAreRequested ==
    \A w \in Workers :
        (Done(w) /\ AllValid(w)) =>
            /\ response[w].status = 200
            /\ DOMAIN response[w].body = Requested(w)

C2_Witness ==
    \E w, v \in Workers :
        /\ Done(w) /\ request[w].regions = <<"amer", "apac">>
        /\ DOMAIN response[w].body = {"apac", "amer"}
        /\ Done(v) /\ request[v].regions = <<>>
        /\ response[v].status = 200

IsExampleRequest(w) ==
    /\ Done(w)
    /\ request[w].regions = <<"apac", "amer">>
    /\ request[w].threshold_ms = 150

\* C3 as stated: the request {regions: [apac, amer], threshold_ms: 150} gets a
\* 200 response whose apac entry is avg_latency 155.0, p95_latency 199.25,
\* avg_uptime 0.9 and breaches 5.
C3_ExampleAsStated ==
    \A w \in Workers :
        IsExampleRequest(w) =>
            /\ response[w].status = 200
            /\ response[w].body["apac"] = RegionMetrics(15500, 19925, 900, 5)

\* C3 amended: the request {regions: [apac, amer], threshold_ms: 150} gets a
\* 200 response whose apac entry is avg_latency 157.0, p95_latency 195.5,
\* avg_uptime 0.9 and breaches 6.
C3_ExampleAmended ==
    \A w \in Workers :
        IsExampleRequest(w) =>
            /\ response[w].status = 200
            /\ response[w].body["apac"] = RegionMetrics(15700, 19550, 900, 6)

C3_Witness ==
    \E w \in Workers :
        /\ IsExampleRequest(w)
        /\ DOMAIN response[w].body = {"apac", "amer"}
        /\ response[w].body["apac"].breaches = 6

\* C6: a request that lists a valid region more than once yields a single key
\* for that region, and its response equals the response to the same request
\* with the duplicates removed and the same threshold_ms.
C6_DuplicatesCollapse ==
    \A w, v \in Workers :
        ( /\ Done(w) /\ Done(v)
          /\ AllValid(w)
          /\ HasDuplicates(request[w].regions)
          /\ request[v].regions = Dedup(request[w].regions)
          /\ request[v].threshold_ms = request[w].threshold_ms ) =>
            /\ response[w].status = 200
            /\ Cardinality(DOMAIN response[w].body) = Len(request[v].regions)
            /\ response[w] = response[v]

C6_Witness ==
    \E w, v \in Workers :
        /\ Done(w) /\ Done(v)
        /\ request[w].regions = <<"apac", "apac">>
        /\ request[v].regions = <<"apac">>
        /\ request[v].threshold_ms = request[w].threshold_ms
        /\ response[w].status = 200
        /\ response[v].status = 200

\* C9: every response is either a success carrying metrics for every requested
\* region or an error carrying no metrics at all, and region validation has
\* completed before any region's metrics are computed.
C9_AllOrNothing ==
    \A w \in Workers :
        /\ Done(w) =>
              \/ /\ response[w].status = 200
                 /\ DOMAIN response[w].body = Requested(w)
              \/ /\ response[w].status >= 400
                 /\ response[w].body = EmptyDict
        /\ (idx[w] > 0 \/ results[w] # EmptyDict) =>
              /\ pc[w] \in {"loop", "done"}
              /\ AllValid(w)

C9_Witness ==
    \E w, v \in Workers :
        /\ Done(w)
        /\ request[w].regions = <<"apac", "latam">>
        /\ response[w].status >= 400
        /\ response[w].body = EmptyDict
        /\ results[w] = EmptyDict
        /\ pc[v] = "loop"
        /\ idx[v] = 1
        /\ Len(request[v].regions) = 2

\* C10: under any interleaving of concurrently processed requests each
\* request's response equals the response it gets when processed alone, and
\* every request observes the same dataset.
C10_Independent ==
    \A w \in Workers :
        /\ Done(w) => response[w] = analyze_latency(request[w])
        /\ pc[w] \in {"validate", "loop", "done"} =>
              telemetry_data[w] = load_sample_data

C10_Witness ==
    \E w, v \in Workers :
        /\ Done(w)
        /\ response[w].status = 200
        /\ request[w].regions = <<"apac">>
        /\ pc[v] = "loop"
        /\ idx[v] = 1
        /\ request[v].regions = <<"amer", "apac">>
        /\ request[v].threshold_ms # request[w].threshold_ms

====
